---- MODULE Spec2Model ----
(***************************************************************************)
(* Model of pyHydrabus' MMC protocol handler (src/pyHydrabus/mmc.py).      *)
(*                                                                         *)
(* The handler is a synchronous, single-threaded request/response client   *)
(* on one serial link.  Every method of class MMC is one action: it writes *)
(* its command to the transport, the device at the other end of the link   *)
(* answers, and the method reads the answer and returns.                   *)
(*                                                                         *)
(* The transport (self._hydrabus) and the device behind it are not part of *)
(* mmc.py.  The transport follows the contract write(bytes) / read(n); the *)
(* device answers every command with the response layout of the opcode     *)
(* table, with a status byte and register contents chosen freely.          *)
(***************************************************************************)
EXTENDS Integers, Sequences, FiniteSets, TLC

VARIABLES
    config,     \* self._config
    hydrabus,   \* self._hydrabus: the serial link, and the device behind it
    op,         \* the method called last ("init" after construction)
    arg,        \* its arguments
    ret,        \* what it returned
    printed,    \* the messages it printed or logged
    lastWidth,  \* history: the last bus_width assigned among {1, 4}; 1 at first
    written     \* history: block number -> data of the caller's last write()

vars == <<config, hydrabus, op, arg, ret, printed, lastWidth, written>>

----------------------------------------------------------------------------
(* Protocol constants.                                                     *)

\* The size of a block, and of the EXT_CSD register.
BlockSize == 512
\* The size of the CID and CSD registers.
RegSize == 16
\* MMC.__MMC_DEFAULT_CONFIG
MMC_DEFAULT_CONFIG == 0

CMD_CONFIGURE == 128
CMD_CID == 2
CMD_CSD == 3
CMD_READ == 4
CMD_WRITE == 5
CMD_EXT_CSD == 6
CMD_LOCK == 7
CMD_UNLOCK == 8
CMD_SET_PASSWORD == 9
CMD_CLEAR_PASSWORD == 10
CMD_FAIL_TO_LOCK == 11
CMD_IS_LOCK == 12
MMC_IS_LOCK == 240
MMC_LOCKE_ERROR == 15

----------------------------------------------------------------------------
(* Bounds of the model: how many distinct payloads and register contents   *)
(* the callers and the device choose from.                                 *)

NumPayloads == 2
NumIdents == 2

\* The k-th sample of n bytes.
Sample(k, n) == [i \in 1..n |-> (k * i + 7 * k) % 256]

Payloads == {Sample(k, BlockSize) : k \in 1..NumPayloads}
Idents == {Sample(k, RegSize) : k \in 1..NumIdents}
\* write() takes data of any length: one sample that is not a block.
ShortData == <<222, 173, 190>>
\* A block number n of 0..2^32-1 is held as <<n \div 2^16, n % 2^16>>: the
\* model checker's integers end at 2^31-1.  Both ends of the range, 2^16,
\* which differs from 0 in its high half only, and 0x01020304, whose four
\* bytes differ.
BlockNums == {<<0, 0>>, <<0, 1>>, <<1, 0>>, <<258, 772>>, <<65535, 65535>>}
\* Every value a status byte can take.
StatusBytes == 0..255
\* The status bytes the commands are tried with when they run in any order:
\* success, failures, and values with bits in either nibble.
StatusSamples == {0, 1, 2, 15, 129, 240, 255}
\* Values assigned to bus_width: the two valid ones, and invalid ones.
WidthValues == {0, 1, 2, 4, 8}

----------------------------------------------------------------------------
(* Python's integer operations, as the code uses them.                     *)

RECURSIVE BitAnd(_, _)
\* a & b, for a, b >= 0
BitAnd(a, b) ==
    IF a = 0 \/ b = 0 THEN 0
    ELSE (a % 2) * (b % 2) + 2 * BitAnd(a \div 2, b \div 2)

RECURSIVE BitOr(_, _)
\* a | b, for a, b >= 0
BitOr(a, b) ==
    IF a = 0 THEN b
    ELSE IF b = 0 THEN a
    ELSE (IF a % 2 = 1 \/ b % 2 = 1 THEN 1 ELSE 0) + 2 * BitOr(a \div 2, b \div 2)

\* a & ~(m), for a, m >= 0: the bits of m cleared in a
BitClear(a, m) == a - BitAnd(a, m)

RECURSIVE Pow256(_)
Pow256(k) == IF k = 0 THEN 1 ELSE 256 * Pow256(k - 1)

\* n.to_bytes(len, byteorder="big"), for 0 <= n < 256^len (Python raises
\* OverflowError outside of it)
ToBytesBig(n, len) == [i \in 1..len |-> (n \div Pow256(len - i)) % 256]

\* A slip: the block number cut to its low 16 bits.
BlockToBytes16(b) == ToBytesBig(0, 2) \o ToBytesBig(b[2], 2)

\* A slip: the block number sent least significant byte first.
BlockToBytesLittle(b) ==
    <<b[2] % 256, b[2] \div 256, b[1] % 256, b[1] \div 256>>

\* block_num.to_bytes(4, byteorder="big"), for block_num = b[1] * 2^16 + b[2]
BlockToBytes(b) == ToBytesBig(b[1], 2) \o ToBytesBig(b[2], 2)

RECURSIVE FromBytesLittle(_)
\* int.from_bytes(b, byteorder="little")
FromBytesLittle(b) ==
    IF b = <<>> THEN 0 ELSE b[1] + 256 * FromBytesLittle(Tail(b))

RECURSIVE FromBytesBig(_)
\* The device's reading of a big-endian number.
FromBytesBig(b) ==
    IF b = <<>> THEN 0 ELSE b[Len(b)] + 256 * FromBytesBig(SubSeq(b, 1, Len(b) - 1))

\* The device's reading of the block number of a read or write command.
BlockOf(req) == <<FromBytesBig(SubSeq(req, 2, 3)), FromBytesBig(SubSeq(req, 4, 5))>>

----------------------------------------------------------------------------
(* The device at the other end of the link.  It holds the configuration   *)
(* it acknowledged last (cfg), the configuration of the last configuration *)
(* command it received (sent, <<>> before the first) and, for the command  *)
(* it serves next, its status byte (status) and the contents of the        *)
(* register or block asked for (data).  The mock device of the round-trip  *)
(* test (mock) also holds the blocks written to it (store) and answers a   *)
(* read command with the block stored under its number.                    *)

ZeroBlock == [i \in 1..BlockSize |-> 0]

\* d repeated or cut to n bytes: the device always sends a full register.
Fit(d, n) == IF d = <<>> THEN [i \in 1..n |-> 0]
             ELSE [i \in 1..n |-> d[((i - 1) % Len(d)) + 1]]

StoredBlock(dev, n) == IF n \in DOMAIN dev.store THEN dev.store[n] ELSE ZeroBlock

\* The bytes the device answers the request req with: the response column
\* of the opcode table.
DeviceReply(dev, req) ==
    LET opcode == req[1]
        n == BlockOf(req)
    IN  IF opcode \in {CMD_CID, CMD_CSD} THEN <<dev.status>> \o Fit(dev.data, RegSize)
        ELSE IF opcode = CMD_EXT_CSD THEN <<dev.status>> \o Fit(dev.data, BlockSize)
        ELSE IF opcode = CMD_READ /\ dev.status = 1
             THEN <<dev.status>> \o (IF dev.mock THEN StoredBlock(dev, n)
                                     ELSE Fit(dev.data, BlockSize))
        ELSE <<dev.status>>

\* The device after the request req: the mock stores the payload of a write
\* command under its block number, a configuration command is remembered,
\* and so is its configuration when the device acknowledges it.
DeviceAfter(dev, req) ==
    LET opcode == req[1]
        n == BlockOf(req)
        data == SubSeq(req, 6, Len(req))
    IN  IF opcode = CMD_WRITE /\ dev.mock
            THEN [dev EXCEPT !.store = (n :> data) @@ dev.store]
        ELSE IF opcode >= CMD_CONFIGURE
            THEN [dev EXCEPT !.sent = <<opcode - CMD_CONFIGURE>>,
                             !.cfg = IF dev.status = 1 THEN opcode - CMD_CONFIGURE
                                     ELSE dev.cfg]
        ELSE dev

\* The device serves the bytes written to it since its last answer.
Serve(h) ==
    IF h.out = <<>> THEN h
    ELSE [h EXCEPT !.in = h.in \o DeviceReply(h.dev, h.out),
                   !.dev = DeviceAfter(h.dev, h.out),
                   !.out = <<>>]

----------------------------------------------------------------------------
(* The transport: self._hydrabus.write(data) and self._hydrabus.read(n).   *)
(* h.log lists the calls of the method that runs; h.got is what the last   *)
(* read returned.  A read of more bytes than the device sends never        *)
(* returns: h.blocked, and nothing more happens on the link.               *)

HWrite(h, data) ==
    IF h.blocked THEN h
    ELSE [h EXCEPT !.out = h.out \o data,
                   !.log = Append(h.log, [call |-> "write", data |-> data])]

HRead(h, n) ==
    IF h.blocked THEN h
    ELSE LET s == Serve(h)
         IN  IF Len(s.in) >= n
             THEN [s EXCEPT !.in = SubSeq(s.in, n + 1, Len(s.in)),
                            !.got = SubSeq(s.in, 1, n),
                            !.log = Append(s.log, [call |-> "read", n |-> n,
                                                   data |-> SubSeq(s.in, 1, n)])]
             ELSE [s EXCEPT !.blocked = TRUE,
                            !.got = <<>>,
                            !.log = Append(s.log, [call |-> "read", n |-> n,
                                                   data |-> <<>>])]

----------------------------------------------------------------------------
(* The methods of class MMC.  Each takes the link h (and self._config      *)
(* where it uses it) and gives the link after it, what it returns and what *)
(* it prints.                                                              *)

\* The command byte of _configure_port.
ConfigCmd(cfg) == BitOr(CMD_CONFIGURE, cfg)

\* A slip: any status byte but 0 taken for success.
configure_port_nonzero(h, cfg) ==
    LET h1 == HWrite(h, ToBytesBig(ConfigCmd(cfg), 1))
        h2 == HRead(h1, 1)
    IN  IF h2.got # <<0>>
        THEN [h |-> h2, ret |-> TRUE, printed |-> <<>>]
        ELSE [h |-> h2, ret |-> FALSE, printed |-> <<"Error setting config.">>]

\* MMC._configure_port
configure_port(h, cfg) ==
    LET h1 == HWrite(h, ToBytesBig(ConfigCmd(cfg), 1))
        h2 == HRead(h1, 1)
    IN  IF h2.got = <<1>>
        THEN [h |-> h2, ret |-> TRUE, printed |-> <<>>]
        ELSE [h |-> h2, ret |-> FALSE, printed |-> <<"Error setting config.">>]

\* A slip: the status byte checked, and nothing returned when it is not 1.
QueryChecked(h, cmd, n) ==
    LET h1 == HWrite(h, ToBytesBig(cmd, 1))
        h2 == HRead(h1, 1)
        status == FromBytesLittle(h2.got)
        h3 == HRead(h2, n)
    IN  IF status = 1
        THEN [h |-> h3, ret |-> h3.got, printed |-> <<>>]
        ELSE [h |-> h2, ret |-> <<>>, printed |-> <<>>]

\* A slip: the status byte not read before the register.
QueryNoStatus(h, cmd, n) ==
    LET h1 == HWrite(h, ToBytesBig(cmd, 1))
        h3 == HRead(h1, n)
    IN  [h |-> h3, ret |-> h3.got, printed |-> <<>>]

\* The three identification queries share their shape: opcode, a status
\* byte that is read and dropped, a register of n bytes.
Query(h, cmd, n) ==
    LET h1 == HWrite(h, ToBytesBig(cmd, 1))
        h2 == HRead(h1, 1)
        status == FromBytesLittle(h2.got)
        h3 == HRead(h2, n)
    IN  [h |-> h3, ret |-> h3.got, printed |-> <<>>]

\* MMC.cid
cid(h) == Query(h, CMD_CID, RegSize)

\* MMC.csd
csd(h) == Query(h, CMD_CSD, RegSize)

\* MMC.ext_csd
ext_csd(h) == Query(h, CMD_EXT_CSD, BlockSize)

\* MMC.bus_width (the getter)
bus_width(cfg) == IF BitAnd(cfg, 1) # 0 THEN 4 ELSE 1

\* A slip: an invalid value falls back to the 1-bit bus.
WithBusWidthReset(cfg, value) ==
    IF value = 4 THEN BitOr(cfg, 1) ELSE BitClear(cfg, 1)

\* The configuration the setter of bus_width leaves in self._config.
WithBusWidth(cfg, value) ==
    IF value = 1 THEN BitClear(cfg, 1)
    ELSE IF value = 4 THEN BitOr(cfg, 1)
    ELSE cfg

\* A slip: the configuration sent before self._config is updated.
set_bus_width_stale(h, cfg, value) ==
    LET r == configure_port(h, cfg)
        cfg1 == WithBusWidth(cfg, value)
    IN  [h |-> r.h, cfg |-> cfg1, ret |-> "None",
         printed |-> r.printed \o (IF value \in {1, 4} THEN <<>>
                                   ELSE <<"Invalid value (1 or 4)">>)]

\* A slip: an invalid value returns before the configuration is sent.
set_bus_width_skip(h, cfg, value) ==
    IF value \in {1, 4}
    THEN LET cfg1 == WithBusWidth(cfg, value)
             r == configure_port(h, cfg1)
         IN  [h |-> r.h, cfg |-> cfg1, ret |-> "None", printed |-> r.printed]
    ELSE [h |-> h, cfg |-> cfg, ret |-> "None",
          printed |-> <<"Invalid value (1 or 4)">>]

\* MMC.bus_width (the setter): returns nothing
set_bus_width(h, cfg, value) ==
    LET cfg1 == WithBusWidth(cfg, value)
        r == configure_port(h, cfg1)
    IN  [h |-> r.h, cfg |-> cfg1, ret |-> "None",
         printed |-> (IF value \in {1, 4} THEN <<>>
                      ELSE <<"Invalid value (1 or 4)">>) \o r.printed]

\* MMC.write
write(h, data, block_num) ==
    LET h1 == HWrite(h, ToBytesBig(CMD_WRITE, 1))
        h2 == HWrite(h1, BlockToBytes(block_num))
        h3 == HWrite(h2, data)
        h4 == HRead(h3, 1)
        status == FromBytesLittle(h4.got)
    IN  [h |-> h4, ret |-> (status = 1), printed |-> <<>>]

\* A slip: the block read whatever the status byte is.
read_unchecked(h, block_num) ==
    LET h1 == HWrite(h, ToBytesBig(CMD_READ, 1))
        h2 == HWrite(h1, BlockToBytes(block_num))
        h3 == HRead(h2, 1)
        h4 == HRead(h3, BlockSize)
    IN  [h |-> h4, ret |-> h4.got, printed |-> <<>>]

\* MMC.read
read(h, block_num) ==
    LET h1 == HWrite(h, ToBytesBig(CMD_READ, 1))
        h2 == HWrite(h1, BlockToBytes(block_num))
        h3 == HRead(h2, 1)
        status == FromBytesLittle(h3.got)
        h4 == HRead(h3, BlockSize)
    IN  IF status = 1
        THEN [h |-> h4, ret |-> h4.got, printed |-> <<>>]
        ELSE [h |-> h3, ret |-> <<>>, printed |-> <<>>]

\* lock, unlock, set_password, clear_password and fail_to_lock share their
\* shape: opcode, a status byte, which they return as a number.
StatusCommand(h, cmd) ==
    LET h1 == HWrite(h, ToBytesBig(cmd, 1))
        h2 == HRead(h1, 1)
        status == FromBytesLittle(h2.got)
    IN  [h |-> h2, ret |-> status, printed |-> <<>>]

\* MMC.lock
lock(h) == StatusCommand(h, CMD_LOCK)

\* MMC.unlock
unlock(h) == StatusCommand(h, CMD_UNLOCK)

\* MMC.set_password
set_password(h) == StatusCommand(h, CMD_SET_PASSWORD)

\* MMC.clear_password
clear_password(h) == StatusCommand(h, CMD_CLEAR_PASSWORD)

\* MMC.fail_to_lock
fail_to_lock(h) == StatusCommand(h, CMD_FAIL_TO_LOCK)

\* A slip: the error flag takes the lock result with it.
is_lock_strict(h) ==
    LET h1 == HWrite(h, ToBytesBig(CMD_IS_LOCK, 1))
        h2 == HRead(h1, 1)
        status == FromBytesLittle(h2.got)
    IN  IF BitAnd(status, MMC_LOCKE_ERROR) # 0
        THEN [h |-> h2, ret |-> FALSE, printed |-> <<"CMD42 Error flag ON">>]
        ELSE [h |-> h2, ret |-> (BitAnd(status, MMC_IS_LOCK) # 0),
              printed |-> <<>>]

\* MMC.is_lock
is_lock(h) ==
    LET h1 == HWrite(h, ToBytesBig(CMD_IS_LOCK, 1))
        h2 == HRead(h1, 1)
        status == FromBytesLittle(h2.got)
    IN  [h |-> h2,
         ret |-> (BitAnd(status, MMC_IS_LOCK) # 0),
         printed |-> IF BitAnd(status, MMC_LOCKE_ERROR) # 0
                     THEN <<"CMD42 Error flag ON">> ELSE <<>>]

----------------------------------------------------------------------------
(* The state after construction: MMC.__init__ sets self._config to the     *)
(* default and sends no command of its own.  The device is in its default  *)
(* configuration and holds no block yet.                                   *)

Init ==
    /\ config = MMC_DEFAULT_CONFIG
    /\ hydrabus = [out |-> <<>>, in |-> <<>>, log |-> <<>>, got |-> <<>>,
                   blocked |-> FALSE,
                   dev |-> [mock |-> FALSE, store |-> <<>>,
                            cfg |-> MMC_DEFAULT_CONFIG, sent |-> <<>>,
                            status |-> 0, data |-> <<>>]]
    /\ op = "init"
    /\ arg = <<>>
    /\ ret = "None"
    /\ printed = <<>>
    /\ lastWidth = 1
    /\ written = <<>>

\* The link as a method finds it: the caller is not stuck in a read, the
\* device has chosen the status s and the register contents d it answers
\* the coming command with.
Link(s, d) ==
    [hydrabus EXCEPT !.log = <<>>, !.dev.status = s, !.dev.data = d]

\* A call of a method that leaves self._config alone: r is its outcome.
Call(name, a, r) ==
    /\ ~hydrabus.blocked
    /\ hydrabus' = r.h
    /\ op' = name
    /\ arg' = a
    /\ ret' = r.ret
    /\ printed' = r.printed

Cid == \E s \in StatusSamples, d \in Idents :
    /\ Call("cid", <<>>, cid(Link(s, d)))
    /\ UNCHANGED <<config, lastWidth, written>>

Csd == \E s \in StatusSamples, d \in Idents :
    /\ Call("csd", <<>>, csd(Link(s, d)))
    /\ UNCHANGED <<config, lastWidth, written>>

ExtCsd == \E s \in StatusSamples, d \in Payloads :
    /\ Call("ext_csd", <<>>, ext_csd(Link(s, d)))
    /\ UNCHANGED <<config, lastWidth, written>>

\* A read of the property bus_width: no transport call.
BusWidthGet ==
    /\ Call("bus_width", <<>>,
            [h |-> [hydrabus EXCEPT !.log = <<>>], ret |-> bus_width(config),
             printed |-> <<>>])
    /\ UNCHANGED <<config, lastWidth, written>>

\* An assignment to the property bus_width.
BusWidthSet == \E s \in StatusSamples, value \in WidthValues :
    LET r == set_bus_width(Link(s, <<>>), config, value)
    IN  /\ Call("bus_width=", <<value>>, r)
        /\ config' = r.cfg
        /\ lastWidth' = IF value \in {1, 4} THEN value ELSE lastWidth
        /\ UNCHANGED written

\* A call of _configure_port, the device answering with a status byte of S.
ConfigurePortWith(S) == \E s \in S :
    /\ Call("_configure_port", <<>>, configure_port(Link(s, <<>>), config))
    /\ UNCHANGED <<config, lastWidth, written>>

ConfigurePort == ConfigurePortWith(StatusSamples)

Write == \E s \in StatusSamples, data \in Payloads \cup {ShortData}, n \in BlockNums :
    /\ Call("write", <<data, n>>, write(Link(s, <<>>), data, n))
    /\ UNCHANGED <<config, lastWidth, written>>

Read == \E s \in StatusSamples, d \in Payloads, n \in BlockNums :
    /\ Call("read", <<n>>, read(Link(s, d), n))
    /\ UNCHANGED <<config, lastWidth, written>>

Lock == \E s \in StatusSamples :
    /\ Call("lock", <<>>, lock(Link(s, <<>>)))
    /\ UNCHANGED <<config, lastWidth, written>>

Unlock == \E s \in StatusSamples :
    /\ Call("unlock", <<>>, unlock(Link(s, <<>>)))
    /\ UNCHANGED <<config, lastWidth, written>>

SetPassword == \E s \in StatusSamples :
    /\ Call("set_password", <<>>, set_password(Link(s, <<>>)))
    /\ UNCHANGED <<config, lastWidth, written>>

ClearPassword == \E s \in StatusSamples :
    /\ Call("clear_password", <<>>, clear_password(Link(s, <<>>)))
    /\ UNCHANGED <<config, lastWidth, written>>

FailToLock == \E s \in StatusSamples :
    /\ Call("fail_to_lock", <<>>, fail_to_lock(Link(s, <<>>)))
    /\ UNCHANGED <<config, lastWidth, written>>

\* A read of is_lock, the device answering with a status byte of S.
IsLockWith(S) == \E s \in S :
    /\ Call("is_lock", <<>>, is_lock(Link(s, <<>>)))
    /\ UNCHANGED <<config, lastWidth, written>>

IsLock == IsLockWith(StatusSamples)

Next ==
    \/ Cid \/ Csd \/ ExtCsd
    \/ BusWidthGet \/ BusWidthSet \/ ConfigurePort
    \/ Write \/ Read
    \/ Lock \/ Unlock \/ SetPassword \/ ClearPassword \/ FailToLock \/ IsLock

Spec == Init /\ [][Next]_vars

----------------------------------------------------------------------------
(* The two commands that decide on the status byte, _configure_port and    *)
(* is_lock, with every value of the byte, in either configuration.         *)

ConfigurePortEvery == ConfigurePortWith(StatusBytes)

IsLockEvery == IsLockWith(StatusBytes)

NextStatus == BusWidthSet \/ BusWidthGet \/ ConfigurePortEvery \/ IsLockEvery

SpecStatus == Init /\ [][NextStatus]_vars

----------------------------------------------------------------------------
(* The round-trip test: the client against the mock device, which stores   *)
(* the payload of each write command under its block number, acknowledges  *)
(* with status 1, and answers a read command with status 1 and the stored  *)
(* block.  The test keeps, in written, the data it wrote last to each      *)
(* block.                                                                  *)

InitMock ==
    /\ config = MMC_DEFAULT_CONFIG
    /\ hydrabus = [out |-> <<>>, in |-> <<>>, log |-> <<>>, got |-> <<>>,
                   blocked |-> FALSE,
                   dev |-> [mock |-> TRUE, store |-> <<>>,
                            cfg |-> MMC_DEFAULT_CONFIG, sent |-> <<>>,
                            status |-> 0, data |-> <<>>]]
    /\ op = "init"
    /\ arg = <<>>
    /\ ret = "None"
    /\ printed = <<>>
    /\ lastWidth = 1
    /\ written = <<>>

MockWrite == \E data \in Payloads, n \in BlockNums :
    /\ Call("write", <<data, n>>, write(Link(1, <<>>), data, n))
    /\ written' = (n :> data) @@ written
    /\ UNCHANGED <<config, lastWidth>>

MockRead == \E n \in BlockNums :
    /\ Call("read", <<n>>, read(Link(1, <<>>), n))
    /\ UNCHANGED <<config, lastWidth, written>>

NextMock == MockWrite \/ MockRead

SpecMock == InitMock /\ [][NextMock]_vars

----------------------------------------------------------------------------
(* What the properties below read off the state.                           *)

\* The device's status byte for the command served last.
Status == hydrabus.dev.status

IsWriteCall(e) == e.call = "write"
IsReadCall(e) == e.call = "read"

\* The transport reads of the method called last, in order.
Reads == SelectSeq(hydrabus.log, IsReadCall)

RECURSIVE Flatten(_)
Flatten(calls) == IF calls = <<>> THEN <<>> ELSE Head(calls).data \o Flatten(Tail(calls))

\* The bytes the method called last wrote, and the bytes it read.
BytesWritten == Flatten(SelectSeq(hydrabus.log, IsWriteCall))
BytesRead == Flatten(Reads)

\* A transport call as the log holds it.
WriteOf(d) == [call |-> "write", data |-> d]
ReadOf(n, d) == [call |-> "read", n |-> n, data |-> d]

\* No write follows a read in the log of the method called last.
WritesFirst ==
    \A i, j \in 1..Len(hydrabus.log) :
        i < j /\ hydrabus.log[i].call = "read" => hydrabus.log[j].call = "read"

----------------------------------------------------------------------------
(* C1.  Against the mock device, write(data, n) of a 512-byte payload      *)
(* returns true, and read(n) returns the data written last to block n,     *)
(* whatever was written to and read from other blocks since.               *)

RoundTrip ==
    /\ op = "write" => ret = TRUE
    /\ op = "read" /\ arg[1] \in DOMAIN written => ret = written[arg[1]]

\* The last block of the range is read back while another block holds
\* other data.
RoundTripWitness ==
    /\ op = "read"
    /\ arg[1] = <<65535, 65535>>
    /\ arg[1] \in DOMAIN written
    /\ ret = written[arg[1]]
    /\ \E m \in DOMAIN written : m # arg[1] /\ written[m] # ret

----------------------------------------------------------------------------
(* C2.  The bus_width getter returns the value of the last assignment      *)
(* among 1 and 4, and 1 when there was none; an assignment of another      *)
(* value and the device's status bytes change nothing of it.               *)

GetterFollowsSetter ==
    /\ bus_width(config) = lastWidth
    /\ op = "bus_width" => ret = lastWidth

\* The getter is read as 4 after 4 was assigned, although the device
\* refused the configuration command that carried it.
GetterFollowsSetterWitness ==
    /\ op = "bus_width"
    /\ ret = 4
    /\ Status # 1
    /\ hydrabus.dev.sent = <<1>>
    /\ hydrabus.dev.cfg = 0

----------------------------------------------------------------------------
(* C3.  As claimed: between operations, self._config equals the            *)
(* configuration the device acknowledged last with status 0x01.            *)

ConfigIsLastAcknowledged == config = hydrabus.dev.cfg

(* C3, amended.  self._config equals the configuration bits of the last    *)
(* _configure_port command sent to the device, acknowledged or not, and    *)
(* the default 0 while none was sent.                                      *)

ConfigIsLastSent ==
    /\ hydrabus.dev.sent = <<>> => config = MMC_DEFAULT_CONFIG
    /\ hydrabus.dev.sent # <<>> => config = hydrabus.dev.sent[1]

\* bus_width = 4 was assigned and the device answered another status than
\* 0x01: the client holds 1, the device acknowledged only 0.
ConfigIsLastSentWitness ==
    /\ op = "bus_width="
    /\ arg = <<4>>
    /\ Status # 1
    /\ config = 1
    /\ hydrabus.dev.sent = <<1>>
    /\ hydrabus.dev.cfg = 0

----------------------------------------------------------------------------
(* C4.  read(block_num) reads one status byte; when it is not 1 it reads   *)
(* nothing more and returns the empty byte sequence; when it is 1 it reads *)
(* 512 bytes once more and returns them.                                   *)

ReadMiss ==
    op = "read" =>
        IF Status = 1
        THEN /\ Len(Reads) = 2
             /\ Reads[1] = ReadOf(1, <<1>>)
             /\ Reads[2].n = 512
             /\ Len(Reads[2].data) = 512
             /\ ret = Reads[2].data
             /\ ret = hydrabus.dev.data
        ELSE /\ Reads = <<ReadOf(1, <<Status>>)>>
             /\ ret = <<>>

ReadMissWitness ==
    /\ op = "read"
    /\ Status = 2
    /\ ret = <<>>
    /\ Len(Reads) = 1

----------------------------------------------------------------------------
(* C5.  is_lock returns true exactly when a bit of the high nibble of the  *)
(* status byte is set; a bit of the low nibble prints a notice, changes    *)
(* nothing of the result and does not keep the call from returning.        *)

IsLockHighNibble ==
    op = "is_lock" =>
        /\ ret = (Status \div 16 # 0)
        /\ (printed # <<>>) = (Status % 16 # 0)
        /\ ~hydrabus.blocked

\* Status 0x1F: locked, with the error flag on.
IsLockHighNibbleWitness ==
    /\ op = "is_lock"
    /\ Status = 31
    /\ ret = TRUE
    /\ printed = <<"CMD42 Error flag ON">>

----------------------------------------------------------------------------
(* C6.  cid and csd return the 16 bytes that follow the status byte, and   *)
(* ext_csd the 512 bytes, as the transport delivers them, whatever the     *)
(* status byte is; they read the status byte and those bytes, no more.     *)

RegisterVerbatim ==
    op \in {"cid", "csd", "ext_csd"} =>
        LET n == IF op = "ext_csd" THEN 512 ELSE 16
        IN  /\ Len(hydrabus.dev.data) = n
            /\ ret = hydrabus.dev.data
            /\ Reads = <<ReadOf(1, <<Status>>), ReadOf(n, hydrabus.dev.data)>>

RegisterVerbatimWitness ==
    /\ op = "csd"
    /\ Status = 0
    /\ Len(ret) = 16
    /\ ret = hydrabus.dev.data

----------------------------------------------------------------------------
(* C7.  _configure_port writes the one byte 0x80 | self._config, reads one *)
(* status byte, returns true exactly when it is 0x01 and false otherwise,  *)
(* and leaves self._config as it was.                                      *)

ConfigurePortContract ==
    /\ [](op = "_configure_port" =>
            /\ config \in {0, 1}
            /\ hydrabus.log = <<WriteOf(<<128 + config>>), ReadOf(1, <<Status>>)>>
            /\ ret = (Status = 1)
            /\ ~hydrabus.blocked)
    /\ [][op' = "_configure_port" => config' = config]_vars

\* The 4-bit configuration is sent as 0x81, and a status of 0x81 is a
\* failure.
ConfigurePortContractWitness ==
    /\ op = "_configure_port"
    /\ config = 1
    /\ hydrabus.log[1].data = <<129>>
    /\ Status = 129
    /\ ret = FALSE
    /\ printed = <<"Error setting config.">>

----------------------------------------------------------------------------
(* C8.  Every command writes what the opcode table says: its opcode first; *)
(* for read and write the block number next, as 4 bytes big-endian; for    *)
(* write the caller's payload last, unchanged; the status commands write   *)
(* the opcode alone and read one status byte; no write follows a read.     *)

OpcodeTable ==
    [cid |-> 2, csd |-> 3, read |-> 4, write |-> 5, ext_csd |-> 6, lock |-> 7,
     unlock |-> 8, set_password |-> 9, clear_password |-> 10,
     fail_to_lock |-> 11, is_lock |-> 12]

\* The 4 bytes of the block number <<hi, lo>>, most significant first.
BigEndian4(b) == <<b[1] \div 256, b[1] % 256, b[2] \div 256, b[2] % 256>>

WireFormat ==
    op \in DOMAIN OpcodeTable =>
        /\ BytesWritten # <<>>
        /\ BytesWritten[1] = OpcodeTable[op]
        /\ op = "read" => BytesWritten = <<4>> \o BigEndian4(arg[1])
        /\ op = "write" => BytesWritten = <<5>> \o BigEndian4(arg[2]) \o arg[1]
        /\ op \in {"lock", "unlock", "set_password", "clear_password",
                   "fail_to_lock", "is_lock"} =>
               /\ BytesWritten = <<OpcodeTable[op]>>
               /\ Reads = <<ReadOf(1, <<Status>>)>>
        /\ WritesFirst

\* write() of three bytes to block 0x01020304.
WireFormatWitness ==
    /\ op = "write"
    /\ arg = <<ShortData, <<258, 772>>>>
    /\ BytesWritten = <<5, 1, 2, 3, 4, 222, 173, 190>>
    /\ Len(Reads) = 1

----------------------------------------------------------------------------
(* C9.  Every assignment to bus_width, of 1, 4 or any other value, makes   *)
(* one _configure_port round trip, a write of one byte then a read of one  *)
(* byte, and the byte written is 0x80 | self._config as the assignment     *)
(* leaves it.                                                              *)

SetterRoundTrip ==
    op = "bus_width=" =>
        /\ config \in {0, 1}
        /\ hydrabus.log = <<WriteOf(<<128 + config>>), ReadOf(1, <<Status>>)>>

\* An invalid value is assigned while the configuration is 1.
SetterRoundTripWitness ==
    /\ op = "bus_width="
    /\ arg = <<8>>
    /\ config = 1
    /\ hydrabus.log = <<WriteOf(<<129>>), ReadOf(1, <<Status>>)>>
    /\ printed[1] = "Invalid value (1 or 4)"

----------------------------------------------------------------------------
(* C10.  Against a device that answers by the opcode table, every method   *)
(* returns, and when it does the client has read all the bytes the device  *)
(* sent: 1 status byte, and 16 more for cid and csd, 512 more for ext_csd, *)
(* 512 more for read when the status is 1.  Nothing is left on the link.   *)

\* The length of the device's answer by the opcode table.
TableReplyLen ==
    IF op \in {"cid", "csd"} THEN 17
    ELSE IF op = "ext_csd" THEN 513
    ELSE IF op = "read" /\ Status = 1 THEN 513
    ELSE IF op \in {"init", "bus_width"} THEN 0
    ELSE 1

FramingInSync ==
    /\ ~hydrabus.blocked
    /\ hydrabus.out = <<>>
    /\ hydrabus.in = <<>>
    /\ Len(BytesRead) = TableReplyLen

\* A read that the device refuses, after which nothing is left to read.
FramingInSyncWitness ==
    /\ op = "read"
    /\ Status = 255
    /\ Len(BytesRead) = 1
    /\ hydrabus.in = <<>>
    /\ ~hydrabus.blocked

====
